---- MODULE Spec2Model ----
(***************************************************************************)
(* One execution of app.py, the Streamlit script that turns a Japanese PDF *)
(* into a vocabulary table: tool initialisation, the widgets, the          *)
(* precondition guards, the dataset load, the page loop, the token fold,   *)
(* the enrichment join, the sort and the presentation of the result.       *)
(*                                                                         *)
(* Strings are ASCII here.  The native part-of-speech tags are written in  *)
(* romaji: "meishi" (noun), "doshi" (verb), "keiyoshi" (adjective),        *)
(* "fukushi" (adverb), "joshi" (particle), "jodoshi" (auxiliary verb),     *)
(* "kigo" (symbol, a tag POS_MAP does not know).  A text is a sequence of  *)
(* characters; "u3000" is the ideographic space.                           *)
(***************************************************************************)
EXTENDS Naturals, Sequences, FiniteSets

VARIABLES
    pc,             \* position of the script
    tokenizer_obj,  \* TRUE: a tokenizer object, FALSE: None
    conv,           \* TRUE: a kakasi object, FALSE: None
    pdf_file, jlpt_file, freq_file, dict_en_file,  \* TRUE: uploaded, FALSE: None
    min_jlpt,       \* the selectbox value
    process,        \* the button
    jlpt_dict, freq_dict, en_dict,  \* word -> value
    defined,        \* the names bound so far in the try block
    vocab,          \* insertion-ordered dict: a sequence of entries
    total_pages, p, \* the page loop
    raw_text,       \* the text of page p, between extract_text and tokenize
    tokens,         \* number of tokens of page p still to fold
    df,             \* the DataFrame: [columns, rows]
    ui,             \* the elements rendered so far
    seen,           \* history: lemma -> [first, n] over the surviving tokens
    nonParticle,    \* history: tokens whose POS was read and is no particle/auxiliary
    last,           \* history: what the latest token step did
    ntokenize,      \* history: number of calls of tokenizer_obj.tokenize
    raised          \* history: the call that raised into the except clause

vars == <<pc, tokenizer_obj, conv, pdf_file, jlpt_file, freq_file, dict_en_file,
          min_jlpt, process, jlpt_dict, freq_dict, en_dict, defined, vocab,
          total_pages, p, raw_text, tokens, df, ui, seen, nonParticle, last,
          ntokenize, raised>>

----------------------------------------------------------------------------
(* Bounds of the explored inputs.                                          *)

\* pages of the PDF
MaxPages == 2
\* tokens the tokenizer returns for one page
MaxTokens == 2
\* characters of one page's text
MaxTextLen == 1

----------------------------------------------------------------------------
(* Input domains.                                                          *)

Lemmas == {"taberu", "neko"}

Levels == {"N5", "N4", "N3", "N2", "N1"}

\* a call that raises
Raises == "raises"

\* page.extract_text() returning None
None == <<"None">>

PosTags == {"meishi", "doshi", "joshi", "jodoshi", "kigo"}

\* a token: what t.part_of_speech()[0] and t.dictionary_form() give
Tokens == [pos : PosTags \cup {Raises}, base : Lemmas \cup {Raises}]

Chars == {"\n", " ", "u3000", "x"}

SeqsUpTo(S, n) == UNION {[1..k -> S] : k \in 0..n}

RawTexts == {None} \cup SeqsUpTo(Chars, MaxTextLen)

\* the uploaded CSV files, as their data rows: a header alone, or two rows of the
\* same word
JlptFiles == {<<>>, <<<<"taberu", "N1">>, <<"taberu", "N2">>>>}

FreqFiles == {<<<<"taberu", "5000">>>>}

EnFiles == {<<<<"neko", "cat">>, <<"taberu", "to eat">>>>}

----------------------------------------------------------------------------
(* Pure helpers of the script.                                             *)

POS_MAP == [meishi |-> "Noun", doshi |-> "Verb", keiyoshi |-> "Adjective",
            fukushi |-> "Adverb"]

\* POS_MAP.get(pos_jp, "Other")
PosLabel(pos_jp) == IF pos_jp \in DOMAIN POS_MAP THEN POS_MAP[pos_jp] ELSE "Other"

Particles == {"joshi", "jodoshi"}

\* str.replace(ch, "")
RECURSIVE Replace(_, _)
Replace(texto, ch) ==
    IF texto = <<>> THEN <<>>
    ELSE IF Head(texto) = ch THEN Replace(Tail(texto), ch)
    ELSE <<Head(texto)>> \o Replace(Tail(texto), ch)

\* a slip: the ideographic space is left in
limpiar_sin_ideografico(texto) == Replace(Replace(texto, "\n"), " ")

limpiar_texto(texto) == Replace(Replace(Replace(texto, "\n"), " "), "u3000")

\* truth value of a str or None
Truthy(texto) == texto # None /\ texto # <<>>

jlpt_rank == [N5 |-> 1, N4 |-> 2, N3 |-> 3, N2 |-> 4, N1 |-> 5]

\* dict(zip(col0, col1)): a later row of the same word replaces an earlier one
ToDict(csv) ==
    [w \in {csv[i][1] : i \in DOMAIN csv} |->
        LET i == CHOOSE i \in DOMAIN csv :
                    csv[i][1] = w /\ \A j \in DOMAIN csv : csv[j][1] = w => j <= i
        IN csv[i][2]]

\* d.get(word, "")
Get(d, word) == IF word \in DOMAIN d THEN d[word] ELSE ""

Keys(v) == {v[i].word : i \in DOMAIN v}

IndexOf(v, word) == CHOOSE i \in DOMAIN v : v[i].word = word

\* a slip: the new entry starts at 1 and is then incremented
InsertAtOne(v, base, pos) == Append(v, [word |-> base, count |-> 1, pos |-> pos])

\* vocab[base] = {"count": 0, "pos": pos}
Insert(v, base, pos) == Append(v, [word |-> base, count |-> 0, pos |-> pos])

\* vocab[base]["count"] += 1
Increment(v, base) == [v EXCEPT ![IndexOf(v, base)].count = @ + 1]

\* a slip: the entry is rewritten by every occurrence (last occurrence wins)
UpsertLastWins(v, base, pos) ==
    IF base \notin Keys(v) THEN Increment(Insert(v, base, pos), base)
    ELSE [Increment(v, base) EXCEPT ![IndexOf(v, base)].pos = pos]

\* the body of the token loop once base and pos are known
Upsert(v, base, pos) ==
    Increment(IF base \notin Keys(v) THEN Insert(v, base, pos) ELSE v, base)

\* a slip: no try/except around dictionary_form, whose failure is then counted
\* as a word
FoldTokenUnguarded(v, t) ==
    IF t.pos = Raises THEN v
    ELSE IF t.pos \in Particles THEN v
    ELSE Increment(IF t.base \notin Keys(v) THEN Insert(v, t.base, PosLabel(t.pos))
                   ELSE v, t.base)

\* one iteration of the token loop: the vocab after token t
FoldToken(v, t) ==
    IF t.pos = Raises THEN v
    ELSE IF t.pos \in Particles THEN v
    ELSE IF t.base = Raises THEN v
    ELSE Upsert(v, t.base, PosLabel(t.pos))

----------------------------------------------------------------------------
(* The enrichment join and the sort.                                       *)

\* the reading pykakasi gives for a word (item['hira'] joined)
hira == [taberu |-> "ta.be.ru", neko |-> "ne.ko"]

Columns == <<"Front", "Reading", "Furigana", "POS", "Meaning_EN", "JLPT",
             "Frequency_PDF", "Frequency_Global">>

\* a slip: the level strings compared instead of their ranks (jlpt > min_jlpt)
DroppedByString(jlpt, min) ==
    jlpt # "" /\ jlpt \in DOMAIN jlpt_rank
        /\ [N1 |-> 1, N2 |-> 2, N3 |-> 3, N4 |-> 4, N5 |-> 5][jlpt]
            > [N1 |-> 1, N2 |-> 2, N3 |-> 3, N4 |-> 4, N5 |-> 5][min]

\* the level filter: jlpt and jlpt in jlpt_rank and rank[jlpt] > rank[min_jlpt]
Dropped(jlpt, min) ==
    jlpt # "" /\ jlpt \in DOMAIN jlpt_rank /\ jlpt_rank[jlpt] > jlpt_rank[min]

\* a slip: the meaning and the global frequency looked up in each other's dict
RowSwapped(info, jd, fd, ed) ==
    [Front            |-> info.word,
     Reading          |-> hira[info.word],
     Furigana         |-> "<ruby>" \o info.word \o "<rt>" \o hira[info.word]
                              \o "</rt></ruby>",
     POS              |-> info.pos,
     Meaning_EN       |-> Get(fd, info.word),
     JLPT             |-> Get(jd, info.word),
     Frequency_PDF    |-> info.count,
     Frequency_Global |-> Get(ed, info.word)]

\* the dict appended to rows for one vocab item
Row(info, jd, fd, ed) ==
    [Front            |-> info.word,
     Reading          |-> hira[info.word],
     Furigana         |-> "<ruby>" \o info.word \o "<rt>" \o hira[info.word]
                              \o "</rt></ruby>",
     POS              |-> info.pos,
     Meaning_EN       |-> Get(ed, info.word),
     JLPT             |-> Get(jd, info.word),
     Frequency_PDF    |-> info.count,
     Frequency_Global |-> Get(fd, info.word)]

\* the vocab items that reach conv.convert, in vocab order
Kept(v, jd, min) == SelectSeq(v, LAMBDA info : ~Dropped(Get(jd, info.word), min))

\* rows after the loop over vocab.items()
Rows(v, jd, fd, ed, min) ==
    LET kept == Kept(v, jd, min)
    IN [i \in DOMAIN kept |-> Row(kept[i], jd, fd, ed)]

\* pd.DataFrame(rows): the columns are the keys of the dicts; none without a dict
DataFrame(rows) ==
    [columns |-> IF rows = <<>> THEN <<>> ELSE Columns, rows |-> rows]

NoFrame == [columns |-> <<>>, rows |-> <<>>]

By == <<"JLPT", "Frequency_PDF">>

Range(s) == {s[i] : i \in DOMAIN s}

\* sort_values raises KeyError for a key that is no column
KeyError(frame) == \E k \in Range(By) : k \notin Range(frame.columns)

\* the order of Python's str on the values of the JLPT column
StrKey == [N1 |-> 1, N2 |-> 2, N3 |-> 3, N4 |-> 4, N5 |-> 5]

StrLess(a, b) ==
    IF a = "" THEN b # "" ELSE b # "" /\ StrKey[a] < StrKey[b]

\* a slip: ascending=[True, True]
BeforeBothAscending(a, b) ==
    \/ StrLess(a.JLPT, b.JLPT)
    \/ a.JLPT = b.JLPT /\ a.Frequency_PDF < b.Frequency_PDF

\* a sorts strictly before b: JLPT ascending, then Frequency_PDF descending
Before(a, b) ==
    \/ StrLess(a.JLPT, b.JLPT)
    \/ a.JLPT = b.JLPT /\ a.Frequency_PDF > b.Frequency_PDF

\* r put after every row that does not sort strictly after it
InsertRow(sorted, r) ==
    LET after == {i \in DOMAIN sorted : Before(r, sorted[i])}
        k == IF after = {} THEN Len(sorted) + 1
             ELSE CHOOSE i \in after : \A j \in after : i <= j
    IN SubSeq(sorted, 1, k - 1) \o <<r>> \o SubSeq(sorted, k, Len(sorted))

\* the stable sort of the rows
RECURSIVE SortRows(_)
SortRows(rows) ==
    IF rows = <<>> THEN <<>>
    ELSE InsertRow(SortRows(SubSeq(rows, 1, Len(rows) - 1)), rows[Len(rows)])

\* df.sort_values(by=["JLPT", "Frequency_PDF"], ascending=[True, False])
sort_values(frame) == [frame EXCEPT !.rows = SortRows(frame.rows)]

----------------------------------------------------------------------------
(* History of the token stream, kept beside the program's state.           *)

\* the token reaches the vocab: both reads succeed and it is no particle/auxiliary
Survives(t) == t.pos # Raises /\ t.pos \notin Particles /\ t.base # Raises

\* seen after token t
See(s, t) ==
    IF ~Survives(t) THEN s
    ELSE [w \in DOMAIN s \cup {t.base} |->
            IF w # t.base THEN s[w]
            ELSE IF w \in DOMAIN s THEN [s[w] EXCEPT !.n = @ + 1]
            ELSE [first |-> PosLabel(t.pos), n |-> 1]]

\* what the step of token t did
Outcome(v, t) ==
    IF t.pos = Raises THEN "pos_raises"
    ELSE IF t.pos \in Particles THEN "particle"
    ELSE IF t.base = Raises THEN "base_raises"
    ELSE IF t.base \notin Keys(v) THEN "new"
    ELSE IF v[IndexOf(v, t.base)].pos = PosLabel(t.pos) THEN "again"
    ELSE "again_other_pos"

----------------------------------------------------------------------------
(* The script.                                                             *)

Init ==
    /\ pc = "tools"
    /\ tokenizer_obj = FALSE /\ conv = FALSE
    /\ pdf_file = FALSE /\ jlpt_file = FALSE /\ freq_file = FALSE
    /\ dict_en_file = FALSE
    /\ min_jlpt = "N3" /\ process = FALSE
    /\ jlpt_dict = <<>> /\ freq_dict = <<>> /\ en_dict = <<>>
    /\ defined = {}
    /\ vocab = <<>>
    /\ total_pages = 0 /\ p = 0
    /\ raw_text = None /\ tokens = 0
    /\ df = NoFrame
    /\ ui = {}
    /\ seen = <<>> /\ nonParticle = 0 /\ last = "none" /\ ntokenize = 0
    /\ raised = "none"

widgets == <<pdf_file, jlpt_file, freq_file, dict_en_file, min_jlpt, process>>
tools == <<tokenizer_obj, conv>>
dicts == <<jlpt_dict, freq_dict, en_dict>>
pages == <<total_pages, p, raw_text, tokens>>
history == <<seen, nonParticle, last, ntokenize>>
fold == <<seen, nonParticle, last>>

\* init_tokenizer, init_kakasi: a failed initialisation reports and gives None
InitTools ==
    /\ pc = "tools"
    /\ \E t_ok \in BOOLEAN, k_ok \in BOOLEAN :
        /\ tokenizer_obj' = t_ok
        /\ conv' = k_ok
        /\ ui' = ui \cup (IF t_ok THEN {} ELSE {"error_tokenizer"})
                    \cup (IF k_ok THEN {} ELSE {"error_kakasi"})
    /\ pc' = "widgets"
    /\ UNCHANGED <<widgets, dicts, defined, vocab, pages, df, history, raised>>

\* the file uploaders, the selectbox and the button
Widgets ==
    /\ pc = "widgets"
    /\ pdf_file' \in BOOLEAN /\ jlpt_file' \in BOOLEAN
    /\ freq_file' \in BOOLEAN /\ dict_en_file' \in BOOLEAN
    /\ min_jlpt' \in Levels
    /\ process' \in BOOLEAN
    /\ pc' = "process"
    /\ UNCHANGED <<tools, dicts, defined, vocab, pages, df, ui, history, raised>>

\* a slip: any() for all()
AnyFile == pdf_file \/ jlpt_file \/ freq_file \/ dict_en_file

\* all([pdf_file, jlpt_file, freq_file, dict_en_file])
AllFiles == pdf_file /\ jlpt_file /\ freq_file /\ dict_en_file

ToolsLoaded == tokenizer_obj /\ conv

\* if process: the two guards before the try block
Process ==
    /\ pc = "process"
    /\ IF ~process THEN pc' = "done" /\ ui' = ui
       ELSE IF ~AllFiles THEN pc' = "done" /\ ui' = ui \cup {"error_missing"}
       ELSE IF ~ToolsLoaded THEN pc' = "done" /\ ui' = ui \cup {"error_tools"}
       ELSE pc' = "load" /\ ui' = ui
    /\ UNCHANGED <<tools, widgets, dicts, defined, vocab, pages, df, history, raised>>

\* except Exception as e: st.error, st.exception
Except(call) ==
    /\ ui' = ui \cup {"error_processing"}
    /\ raised' = call
    /\ pc' = "done"

\* the three read_csv, the three dicts, vocab = {}
LoadCsvs ==
    /\ pc = "load"
    /\ \/ /\ Except("read_csv")
          /\ UNCHANGED <<dicts, defined, vocab>>
       \/ /\ \E jc \in JlptFiles, fc \in FreqFiles, ec \in EnFiles :
                /\ jlpt_dict' = ToDict(jc)
                /\ freq_dict' = ToDict(fc)
                /\ en_dict' = ToDict(ec)
          /\ vocab' = <<>>
          /\ defined' = defined \cup {"jlpt_dict", "freq_dict", "en_dict", "vocab"}
          /\ pc' = "pdf"
          /\ UNCHANGED <<ui, raised>>
    /\ UNCHANGED <<tools, widgets, pages, df, history>>

\* PdfReader(pdf_file), len(reader.pages)
OpenPdf ==
    /\ pc = "pdf"
    /\ \/ /\ Except("PdfReader")
          /\ UNCHANGED <<defined, total_pages>>
       \/ /\ total_pages' \in 0..MaxPages
          /\ defined' = defined \cup {"reader"}
          /\ pc' = "page"
          /\ UNCHANGED <<ui, raised>>
    /\ UNCHANGED <<tools, widgets, dicts, vocab, p, raw_text, tokens, df, history>>

\* for p in range(total_pages): page.extract_text()
ExtractText ==
    /\ pc = "page"
    /\ p < total_pages
    /\ \/ /\ Except("extract_text")
          /\ UNCHANGED raw_text
       \/ /\ raw_text' \in RawTexts
          /\ pc' = "text"
          /\ UNCHANGED <<ui, raised>>
    /\ UNCHANGED <<tools, widgets, dicts, defined, vocab, total_pages, p, tokens, df,
                   history>>

\* the page is skipped when not raw_text or not clean
Skipped(texto) == ~Truthy(texto) \/ limpiar_texto(texto) = <<>>

\* the two continue, else tokenizer_obj.tokenize(clean, MODE)
Tokenize ==
    /\ pc = "text"
    /\ raw_text' = None
    /\ IF Skipped(raw_text)
       THEN /\ p' = p + 1
            /\ pc' = "page"
            /\ UNCHANGED <<tokens, ui, ntokenize, raised>>
       ELSE /\ ntokenize' = ntokenize + 1
            /\ UNCHANGED p
            /\ \/ Except("tokenize") /\ UNCHANGED tokens
               \/ /\ tokens' \in 0..MaxTokens
                  /\ pc' = "tokens"
                  /\ UNCHANGED <<ui, raised>>
    /\ UNCHANGED <<tools, widgets, dicts, defined, vocab, total_pages, df, seen,
                   nonParticle, last>>

\* for t in tokens: one iteration, with its try/except: continue
FoldStep ==
    /\ pc = "tokens"
    /\ tokens > 0
    /\ \E t \in Tokens :
        /\ vocab' = FoldToken(vocab, t)
        /\ seen' = See(seen, t)
        /\ nonParticle' = nonParticle
                + (IF t.pos # Raises /\ t.pos \notin Particles THEN 1 ELSE 0)
        /\ last' = Outcome(vocab, t)
    /\ tokens' = tokens - 1
    /\ UNCHANGED <<pc, tools, widgets, dicts, defined, total_pages, p, raw_text, df, ui,
                   ntokenize, raised>>

\* the token loop is over: the next p
EndPage ==
    /\ pc = "tokens"
    /\ tokens = 0
    /\ p' = p + 1
    /\ pc' = "page"
    /\ last' = "none"
    /\ UNCHANGED <<tools, widgets, dicts, defined, vocab, total_pages, raw_text, tokens,
                   df, ui, seen, nonParticle, ntokenize, raised>>

\* the loop over vocab.items(), pd.DataFrame(rows), df.sort_values
BuildRows ==
    /\ pc = "page"
    /\ p = total_pages
    /\ LET rows == Rows(vocab, jlpt_dict, freq_dict, en_dict, min_jlpt)
           frame == DataFrame(rows)
       IN \/ /\ rows # <<>>      \* conv.convert raises
             /\ Except("convert")
             /\ UNCHANGED <<df, defined>>
          \/ /\ KeyError(frame)
             /\ Except("sort_values")
             /\ df' = frame
             /\ defined' = defined \cup {"rows", "df"}
          \/ /\ ~KeyError(frame)
             /\ df' = sort_values(frame)
             /\ defined' = defined \cup {"rows", "df"}
             /\ pc' = "show"
             /\ UNCHANGED <<ui, raised>>
    /\ UNCHANGED <<tools, widgets, dicts, vocab, pages, history>>

\* the success box, st.dataframe, df.to_excel, st.download_button, the metrics
Show ==
    /\ pc = "show"
    /\ \/ /\ ui' = ui \cup {"success", "table", "error_processing"}  \* to_excel raises
          /\ raised' = "to_excel"
       \/ /\ ui' = ui \cup {"success", "table", "download", "metrics"}
          /\ UNCHANGED raised
    /\ pc' = "done"
    /\ UNCHANGED <<tools, widgets, dicts, defined, vocab, pages, df, history>>

Next ==
    \/ InitTools
    \/ Widgets
    \/ Process
    \/ LoadCsvs
    \/ OpenPdf
    \/ ExtractText
    \/ Tokenize
    \/ FoldStep
    \/ EndPage
    \/ BuildRows
    \/ Show

Spec == Init /\ [][Next]_vars

----------------------------------------------------------------------------
(* The enrichment join and the sort on their own: lines 216-266 from every *)
(* state in which the page loop of a one-page PDF can end, over every      *)
(* vocab, every three dicts and every threshold within the bounds.         *)

\* occurrences of one lemma
MaxCount == 2

Labels == {PosLabel(tag) : tag \in PosTags \ Particles}

Dicts(values) == UNION {[D -> values] : D \in SUBSET Lemmas}

Entries == [word : Lemmas, count : 1..MaxCount, pos : Labels]

Vocabs ==
    {v \in SeqsUpTo(Entries, Cardinality(Lemmas)) :
        \A i, j \in DOMAIN v : i # j => v[i].word # v[j].word}

RECURSIVE Total(_)
Total(v) == IF v = <<>> THEN 0 ELSE v[1].count + Total(Tail(v))

InitJoin ==
    /\ pc = "page"
    /\ tokenizer_obj = TRUE /\ conv = TRUE
    /\ pdf_file = TRUE /\ jlpt_file = TRUE /\ freq_file = TRUE
    /\ dict_en_file = TRUE
    /\ min_jlpt \in Levels /\ process = TRUE
    /\ jlpt_dict \in Dicts(Levels)
    /\ freq_dict \in Dicts({"5000"})
    /\ en_dict \in {<<>>, [w \in Lemmas |-> "to eat"]}
    /\ defined = {"jlpt_dict", "freq_dict", "en_dict", "vocab", "reader"}
    /\ vocab \in Vocabs
    /\ total_pages = 1 /\ p = 1
    /\ raw_text = None /\ tokens = 0
    /\ df = NoFrame
    /\ ui = {}
    /\ seen = [w \in Keys(vocab) |->
                [first |-> vocab[IndexOf(vocab, w)].pos,
                 n |-> vocab[IndexOf(vocab, w)].count]]
    /\ nonParticle = Total(vocab)
    /\ last = "none"
    /\ ntokenize = IF vocab = <<>> THEN 0 ELSE 1
    /\ raised = "none"

NextJoin ==
    \/ BuildRows
    \/ Show

SpecJoin == InitJoin /\ [][NextJoin]_vars

----------------------------------------------------------------------------
(* The properties.                                                         *)

\* the table of the run has been rendered
Presented == "table" \in ui

\* the run ended with the download offered and no error
Succeeded == pc = "done" /\ "download" \in ui /\ "error_processing" \notin ui

\* number of tokens that reached the vocab
Survived ==
    LET f[S \in SUBSET DOMAIN seen] ==
            IF S = {} THEN 0
            ELSE LET w == CHOOSE w \in S : TRUE IN seen[w].n + f[S \ {w}]
    IN f[DOMAIN seen]

\* the vocab is the one the surviving tokens alone give: one entry per lemma seen,
\* with the POS of its first surviving occurrence and the number of its occurrences
VocabOfSurvivors ==
    /\ Keys(vocab) = DOMAIN seen
    /\ \A k \in DOMAIN vocab :
        /\ vocab[k].pos = seen[vocab[k].word].first
        /\ vocab[k].count = seen[vocab[k].word].n
    /\ \A j, k \in DOMAIN vocab : j # k => vocab[j].word # vocab[k].word

\* the level of a word is known and more advanced than the threshold
TooAdvanced(w) ==
    /\ w \in DOMAIN jlpt_dict
    /\ jlpt_dict[w] \in Levels
    /\ [N5 |-> 1, N4 |-> 2, N3 |-> 3, N2 |-> 4, N1 |-> 5][jlpt_dict[w]]
        > [N5 |-> 1, N4 |-> 2, N3 |-> 3, N2 |-> 4, N1 |-> 5][min_jlpt]

\* position of a JLPT value in the ascending order of strings: "" is the least
LexKey(x) == IF x = "" THEN 0 ELSE [N1 |-> 1, N2 |-> 2, N3 |-> 3, N4 |-> 4, N5 |-> 5][x]

(* C1, as the code has it: in every rendered table the rows are in ascending  *)
(* string order of JLPT, in which the empty string comes first, so the rows   *)
(* without a level precede all rows with one; rows of equal JLPT are in       *)
(* descending order of Frequency_PDF.                                         *)
C1_SortedEmptyFirst ==
    Presented =>
        \A i, j \in DOMAIN df.rows :
            i < j =>
                /\ LexKey(df.rows[i].JLPT) <= LexKey(df.rows[j].JLPT)
                /\ df.rows[i].JLPT = df.rows[j].JLPT
                    => df.rows[i].Frequency_PDF >= df.rows[j].Frequency_PDF

\* C1 as stated: in the table of a successful run the rows without a level come
\* after all rows with one
C1_SortedEmptyLast ==
    Succeeded =>
        \A i, j \in DOMAIN df.rows :
            i < j =>
                /\ df.rows[i].JLPT = "" => df.rows[j].JLPT = ""
                /\ (df.rows[i].JLPT # "" /\ df.rows[j].JLPT # "")
                    => LexKey(df.rows[i].JLPT) <= LexKey(df.rows[j].JLPT)
                /\ df.rows[i].JLPT = df.rows[j].JLPT
                    => df.rows[i].Frequency_PDF >= df.rows[j].Frequency_PDF

\* a rendered table with a row without a level and a row with one
C1_Witness ==
    /\ Succeeded
    /\ \E i, j \in DOMAIN df.rows : df.rows[i].JLPT = "" /\ df.rows[j].JLPT # ""

(* C2: in every rendered table, a vocab entry whose level is known and of a   *)
(* rank (N5=1 .. N1=5) strictly greater than the threshold's has no row, and  *)
(* a vocab entry without a level in the JLPT dict has a row with JLPT = "".   *)
C2_LevelFilter ==
    Presented =>
        \A k \in DOMAIN vocab :
            LET w == vocab[k].word
            IN /\ TooAdvanced(w) => \A i \in DOMAIN df.rows : df.rows[i].Front # w
               /\ w \notin DOMAIN jlpt_dict
                    => \E i \in DOMAIN df.rows :
                            df.rows[i].Front = w /\ df.rows[i].JLPT = ""

\* a rendered table of a vocab with a too advanced word and a word without level
C2_Witness ==
    /\ Succeeded
    /\ \E j, k \in DOMAIN vocab :
        TooAdvanced(vocab[j].word) /\ vocab[k].word \notin DOMAIN jlpt_dict

(* C3, as the code has it: at every point of the fold the sum of the counts   *)
(* of the vocab equals the number of tokens folded so far whose               *)
(* part-of-speech and dictionary form were both read without failure and      *)
(* whose part-of-speech is neither particle nor auxiliary verb.               *)
C3_SumIsSurvivors == Total(vocab) = Survived

\* C3 as stated: the sum equals the number of tokens whose part-of-speech is
\* neither particle nor auxiliary verb
C3_SumIsNonParticle == Total(vocab) = nonParticle

\* the fold of several pages is over, with entries, and a token of an open class
\* did not reach the vocab
C3_Witness ==
    /\ pc = "page" /\ p = total_pages /\ total_pages >= 2 /\ ntokenize >= 2
    /\ Total(vocab) >= 2
    /\ nonParticle > Total(vocab)

(* C4: the POS of every entry is the mapped tag of the first surviving        *)
(* occurrence of its lemma and its count the number of the surviving          *)
(* occurrences; no step changes the POS or the place of an existing entry,    *)
(* and a step raises a count by at most one.                                  *)
C4_FirstSeenWins ==
    [][/\ VocabOfSurvivors'
       /\ \A k \in DOMAIN vocab :
            /\ k \in DOMAIN vocab'
            /\ vocab'[k].word = vocab[k].word
            /\ vocab'[k].pos = vocab[k].pos
            /\ vocab'[k].count \in {vocab[k].count, vocab[k].count + 1}
       /\ last' \in {"again", "again_other_pos"} => Total(vocab') = Total(vocab) + 1
      ]_vars

\* a lemma has just come again, with a tag of another label than its entry's
C4_Witness ==
    /\ last = "again_other_pos"
    /\ \E k \in DOMAIN vocab : vocab[k].count >= 2

\* the precondition of the run fails
PreconditionFails ==
    /\ process
    /\ \/ ~(pdf_file /\ jlpt_file /\ freq_file /\ dict_en_file)
       \/ ~(tokenizer_obj /\ conv)

\* nothing of the try block has run
NothingProcessed ==
    /\ defined = {}
    /\ jlpt_dict = <<>> /\ freq_dict = <<>> /\ en_dict = <<>>
    /\ total_pages = 0 /\ p = 0 /\ raw_text = None /\ ntokenize = 0
    /\ vocab = <<>>
    /\ df = NoFrame
    /\ ui \cap {"success", "table", "download", "metrics"} = {}
    /\ raised = "none"

(* C5: once the button is pressed with an input missing or a tool not         *)
(* initialised, the run never enters the try block and ends with the error    *)
(* of the failed guard reported; a failed initialisation is reported too.     *)
C5_PreconditionGuards ==
    /\ (pc \notin {"tools", "widgets"} /\ PreconditionFails) =>
        /\ pc \in {"process", "done"}
        /\ NothingProcessed
        /\ pc = "done" =>
            IF ~(pdf_file /\ jlpt_file /\ freq_file /\ dict_en_file)
            THEN "error_missing" \in ui ELSE "error_tools" \in ui
    /\ pc # "tools" =>
        /\ ~tokenizer_obj => "error_tokenizer" \in ui
        /\ ~conv => "error_kakasi" \in ui

\* a run triggered with three of the four inputs has ended
C5_Witness ==
    /\ pc = "done" /\ process
    /\ ~pdf_file /\ jlpt_file /\ freq_file /\ dict_en_file
    /\ tokenizer_obj /\ conv
    /\ "error_missing" \in ui

(* C6 as stated: a run in which a call raised into the except clause has      *)
(* ended with the error reported and has rendered no success box, no table    *)
(* and no download.                                                           *)
C6_AllOrNothing ==
    raised # "none" =>
        /\ pc = "done"
        /\ "error_processing" \in ui
        /\ ui \cap {"success", "table", "download"} = {}

(* C7: a token whose part-of-speech or dictionary form cannot be read leaves  *)
(* the vocab, the rendered elements and the error state as they are, and the  *)
(* loop goes on with the next token of the page; the vocab stays the one the  *)
(* surviving tokens alone give.                                               *)
C7_BadTokenSkipped ==
    [][(pc = "tokens" /\ tokens > 0 /\ last' \in {"pos_raises", "base_raises"}) =>
          /\ vocab' = vocab
          /\ ui' = ui /\ raised' = raised
          /\ pc' = "tokens" /\ tokens' = tokens - 1
          /\ p' = p /\ total_pages' = total_pages
          /\ VocabOfSurvivors'
      ]_vars

\* a token has just been folded into the vocab after a token whose dictionary
\* form could not be read
C7_Witness ==
    /\ last \in {"new", "again"}
    /\ nonParticle > Total(vocab)
    /\ vocab # <<>>

(* C8: a rendered table has one row for each vocab entry the level filter     *)
(* keeps and no other row, the Front values are pairwise distinct, and each   *)
(* row carries its entry's word, POS and count (at least 1) and, for each of  *)
(* the three dicts, the value of the word or "" when the word is no key.      *)
C8_Rows ==
    Presented =>
        /\ Len(df.rows) = Cardinality({k \in DOMAIN vocab : ~TooAdvanced(vocab[k].word)})
        /\ \A i, j \in DOMAIN df.rows : i # j => df.rows[i].Front # df.rows[j].Front
        /\ \A i \in DOMAIN df.rows :
            \E k \in DOMAIN vocab :
                LET w == vocab[k].word
                    r == df.rows[i]
                IN /\ r.Front = w
                   /\ ~TooAdvanced(w)
                   /\ r.POS = vocab[k].pos
                   /\ r.Frequency_PDF = vocab[k].count
                   /\ r.Frequency_PDF >= 1
                   /\ r.JLPT = (IF w \in DOMAIN jlpt_dict THEN jlpt_dict[w] ELSE "")
                   /\ r.Frequency_Global
                        = (IF w \in DOMAIN freq_dict THEN freq_dict[w] ELSE "")
                   /\ r.Meaning_EN = (IF w \in DOMAIN en_dict THEN en_dict[w] ELSE "")

\* a rendered table of two rows, one with and one without a global frequency
\* and one with a meaning
C8_Witness ==
    /\ Succeeded
    /\ Len(df.rows) = 2
    /\ \E i, j \in DOMAIN df.rows :
        /\ df.rows[i].Frequency_Global = "" /\ df.rows[j].Frequency_Global = "5000"
        /\ df.rows[j].Meaning_EN = "to eat"

\* the page has no text: None, or nothing but newlines and the two spaces
Blank(texto) ==
    \/ texto = None
    \/ \A i \in DOMAIN texto : texto[i] \in {"\n", " ", "u3000"}

(* C9: a page whose text is None, empty, or nothing but newlines, spaces and  *)
(* ideographic spaces is left by one step that calls no tokenizer, changes    *)
(* neither the vocab nor what is rendered, raises nothing, and goes to the    *)
(* next page.                                                                 *)
C9_BlankPageSkipped ==
    [][(pc = "text" /\ Blank(raw_text)) =>
          /\ ntokenize' = ntokenize
          /\ vocab' = vocab /\ seen' = seen
          /\ ui' = ui /\ raised' = raised
          /\ pc' = "page" /\ p' = p + 1 /\ total_pages' = total_pages
      ]_vars

\* the tokenizer is called for the first time on a page that is not the first:
\* the pages before it were skipped
C9_Witness == pc = "tokens" /\ p >= 1 /\ ntokenize = 1 /\ raised = "none"

\* a call of a collaborator raised: a CSV, the PDF, a page, the tokenizer, the
\* reading converter or the serializer
CollaboratorFailed ==
    raised \in {"read_csv", "PdfReader", "extract_text", "tokenize", "convert",
                "to_excel"}

(* C10 as stated: a run that passed the guards and in which no collaborator   *)
(* call failed has ended in success, with a table of the eight columns and    *)
(* no error, also when no vocab entry reaches the table.                      *)
C10_AlwaysSucceeds ==
    (pc = "done" /\ process /\ AllFiles /\ ToolsLoaded /\ ~CollaboratorFailed) =>
        /\ "success" \in ui /\ "table" \in ui /\ "download" \in ui
        /\ df.columns = Columns
        /\ "error_processing" \notin ui

====
